---- MODULE Spec2Model ----
(***************************************************************************)
(* The transaction lifecycle of the M-Pesa STK push integration            *)
(* (src/python/app.py): payment initiation, the provider's callback and    *)
(* the MongoDB collection both write to.                                   *)
(*                                                                         *)
(* Every HTTP request is served by its own handler, concurrently with the  *)
(* others; the handlers share nothing but the collection.  A handler's     *)
(* steps are the points where it meets the outside: the replies to its     *)
(* token request and its push-payment request, and the collection's        *)
(* insert_one / update_one, each of which MongoDB applies atomically.      *)
(*                                                                         *)
(* Python dicts (JSON bodies, documents, $set updates) are functions from  *)
(* key strings to values; a key a dict lacks is outside its DOMAIN.        *)
(* Strings the code takes apart (phone numbers) are sequences of           *)
(* one-character strings.  Amounts are fixed-point, in tenths of a         *)
(* shilling.  Python's None is None (strings), NoneNum (numbers) or        *)
(* NoPhone (phone numbers).                                                *)
(***************************************************************************)
EXTENDS Integers, Sequences, FiniteSets, Bags, TLC

VARIABLES
    store,      \* transactions_collection: the documents, in insertion order
    clock,      \* the last value datetime.utcnow() returned
    arrived,    \* the number of requests received so far
    handlers,   \* the requests being handled: a bag of [pc, req, local], the
                \* handler's position, its request and its local variables
    resp        \* the response returned last: its number, the request it
                \* answers, the status code and the body

vars == <<store, clock, arrived, handlers, resp>>

(***************************************************************************)
(* Bounds of the model.                                                    *)
(***************************************************************************)
\* requests served in one behaviour
MaxRequests == 3
\* requests being handled at the same time
MaxInFlight == 2
\* datetime.utcnow() stops advancing here
MaxClock == 1

(***************************************************************************)
(* Configuration (src/python/config.py).                                   *)
(***************************************************************************)
MIN_AMOUNT == 1
MAX_AMOUNT == 70000

KES(n) == n * 10    \* whole shillings as tenths

None == "None"
NoneNum == -1
\* float('nan'): a float that is no number, apart from every amount
NaN == -2
NoPhone == << >>

(***************************************************************************)
(* Python dict helpers.                                                    *)
(***************************************************************************)
Has(d, k) == k \in DOMAIN d

Get(d, k, default) == IF k \in DOMAIN d THEN d[k] ELSE default

\* dict.update(u), and MongoDB's {"$set": u} on a document
Update(d, u) ==
    [k \in DOMAIN d \cup DOMAIN u |-> IF k \in DOMAIN u THEN u[k] ELSE d[k]]

\* a falsy dict: None or {}
Falsy(d) == DOMAIN d = {}

(***************************************************************************)
(* validate_phone_number                                                   *)
(***************************************************************************)
Digits == {"0", "1", "2", "3", "4", "5", "6", "7", "8", "9"}

IsDigit(c) == c \in Digits

\* re.sub(r'[^\d]', '', phone)
StripNonDigits(s) == SelectSeq(s, IsDigit)

StartsWith(s, p) == Len(s) >= Len(p) /\ SubSeq(s, 1, Len(p)) = p

\* validate_phone_number without the length check of line 72
validate_phone_number_any_length(phone) ==
    IF phone = NoPhone
    THEN [ok |-> FALSE, error |-> "Phone number is required"]
    ELSE LET stripped == StripNonDigits(phone) IN
         IF ~StartsWith(stripped, <<"2", "5", "4">>)
         THEN [ok |-> FALSE, error |-> "Phone number must start with 254"]
         ELSE IF ~(StartsWith(stripped, <<"2", "5", "4", "7">>)
                   \/ StartsWith(stripped, <<"2", "5", "4", "1">>))
         THEN [ok |-> FALSE, error |-> "Phone number must be a valid Safaricom number"]
         ELSE [ok |-> TRUE, phone |-> stripped]

\* validate_phone_number with the length checked before the country code
validate_phone_number_length_first(phone) ==
    IF phone = NoPhone
    THEN [ok |-> FALSE, error |-> "Phone number is required"]
    ELSE LET stripped == StripNonDigits(phone) IN
         IF Len(stripped) # 12
         THEN [ok |-> FALSE, error |-> "Phone number must be 12 digits (254XXXXXXXXX)"]
         ELSE IF ~StartsWith(stripped, <<"2", "5", "4">>)
         THEN [ok |-> FALSE, error |-> "Phone number must start with 254"]
         ELSE IF ~(StartsWith(stripped, <<"2", "5", "4", "7">>)
                   \/ StartsWith(stripped, <<"2", "5", "4", "1">>))
         THEN [ok |-> FALSE, error |-> "Phone number must be a valid Safaricom number"]
         ELSE [ok |-> TRUE, phone |-> stripped]

validate_phone_number(phone) ==
    IF phone = NoPhone
    THEN [ok |-> FALSE, error |-> "Phone number is required"]
    ELSE LET stripped == StripNonDigits(phone) IN
         IF ~StartsWith(stripped, <<"2", "5", "4">>)
         THEN [ok |-> FALSE, error |-> "Phone number must start with 254"]
         ELSE IF Len(stripped) # 12
         THEN [ok |-> FALSE, error |-> "Phone number must be 12 digits (254XXXXXXXXX)"]
         ELSE IF ~(StartsWith(stripped, <<"2", "5", "4", "7">>)
                   \/ StartsWith(stripped, <<"2", "5", "4", "1">>))
         THEN [ok |-> FALSE, error |-> "Phone number must be a valid Safaricom number"]
         ELSE [ok |-> TRUE, phone |-> stripped]

(***************************************************************************)
(* validate_amount.  A JSON amount is a number [t |-> "num", v |-> tenths],*)
(* a string [t |-> "str", s |-> characters] or absent/null [t |-> "none"]. *)
(***************************************************************************)
DigitValue(c) ==
    CASE c = "0" -> 0 [] c = "1" -> 1 [] c = "2" -> 2 [] c = "3" -> 3
      [] c = "4" -> 4 [] c = "5" -> 5 [] c = "6" -> 6 [] c = "7" -> 7
      [] c = "8" -> 8 [] c = "9" -> 9

RECURSIVE DigitsToInt(_)
DigitsToInt(s) ==
    IF s = << >> THEN 0
    ELSE 10 * DigitsToInt(SubSeq(s, 1, Len(s) - 1)) + DigitValue(s[Len(s)])

\* float(amount): raises ValueError / TypeError (ok = FALSE) or yields tenths;
\* the string "nan" parses to NaN
ToFloat(amount) ==
    CASE amount.t = "num" -> [ok |-> TRUE, v |-> amount.v]
      [] amount.t = "str" ->
            IF amount.s = <<"n", "a", "n">>
            THEN [ok |-> TRUE, v |-> NaN]
            ELSE IF amount.s # << >> /\ \A i \in 1..Len(amount.s) : IsDigit(amount.s[i])
            THEN [ok |-> TRUE, v |-> KES(DigitsToInt(amount.s))]
            ELSE [ok |-> FALSE, v |-> 0]
      [] OTHER -> [ok |-> FALSE, v |-> 0]

\* a < b on floats: every comparison with NaN is false
Less(a, b) == a # NaN /\ b # NaN /\ a < b

validate_amount(amount) ==
    LET f == ToFloat(amount) IN
    IF ~f.ok THEN [ok |-> FALSE, error |-> "Invalid amount format"]
    ELSE IF Less(f.v, KES(MIN_AMOUNT))
    THEN [ok |-> FALSE, error |-> "Amount must be at least 1 KES"]
    ELSE IF Less(KES(MAX_AMOUNT), f.v)
    THEN [ok |-> FALSE, error |-> "Amount cannot exceed 70000 KES"]
    ELSE [ok |-> TRUE, amount |-> f.v]

\* int(amount_result): truncation of a positive float; int(nan) raises
\* ValueError
ToInt(v) == v \div 10

(***************************************************************************)
(* What the outside can send.  Each sequence lists the requests and the    *)
(* replies a behaviour draws from.                                         *)
(***************************************************************************)
Str(s) == [t |-> "str", s |-> s]
Num(v) == [t |-> "num", v |-> v]

API_TOKEN == "secret"

Phone1Raw == <<"+", "2", "5", "4", " ", "7", "0", "8", "3", "7", "4", "1", "4", "9">>
Phone1 == <<"2", "5", "4", "7", "0", "8", "3", "7", "4", "1", "4", "9">>
Phone2 == <<"2", "5", "4", "1", "1", "0", "0", "0", "0", "0", "0", "1">>

\* POST /initiate_payment: the bearer token of the Authorization header (None
\* without the header) and the JSON body
InitiateRequests == <<
    [kind |-> "initiate", auth |-> "secret",
     json |-> [phone |-> Phone1Raw, amount |-> Str(<<"2", "5", "0">>),
               account_reference |-> "Test Payment", transaction_desc |-> "Testing"]],
    [kind |-> "initiate", auth |-> "secret",
     json |-> [phone |-> <<"i", "n", "v", "a", "l", "i", "d">>, amount |-> Num(KES(100))]],
    [kind |-> "initiate", auth |-> "secret",
     json |-> [phone |-> Phone1, amount |-> Num(KES(0 - 10))]],
    [kind |-> "initiate", auth |-> "secret",
     json |-> [phone |-> Phone1, amount |-> Str(<<"n", "a", "n">>)]],
    [kind |-> "initiate", auth |-> "secret", json |-> << >>],
    [kind |-> "initiate", auth |-> "invalid_token",
     json |-> [phone |-> Phone1, amount |-> Num(KES(100))]],
    [kind |-> "initiate", auth |-> None,
     json |-> [phone |-> Phone1, amount |-> Num(KES(100))]]
>>

\* replies of the provider's token endpoint to requests.get
TokenReplies == <<
    [raises |-> "ConnectionError"],
    [status_code |-> 401, json |-> << >>],
    [status_code |-> 200, json |-> [error |-> "invalid_client"]],
    [status_code |-> 200, json |-> [access_token |-> "token", expires_in |-> "3599"]]
>>

\* replies of the provider's push-payment endpoint to requests.post
PushReplies == <<
    [raises |-> "Timeout"],
    [status_code |-> 400,
     json |-> [errorCode |-> "400.002.02", errorMessage |-> "Bad Request"]],
    [status_code |-> 200,
     json |-> [errorCode |-> "400.002.02", errorMessage |-> "Bad Request"]],
    [status_code |-> 200,
     json |-> [CheckoutRequestID |-> "ws_CO_1", MerchantRequestID |-> "m_1",
               CustomerMessage |-> "Success. Request accepted for processing"]],
    [status_code |-> 200,
     json |-> [CheckoutRequestID |-> "ws_CO_2", MerchantRequestID |-> "m_2",
               CustomerMessage |-> "Success. Request accepted for processing"]],
    [status_code |-> 200, json |-> [MerchantRequestID |-> "m_3"]]
>>

Item(name, value) == [Name |-> name, Value |-> value]

StkCallback(stk) == [kind |-> "callback", json |-> [Body |-> [stkCallback |-> stk]]]

Receipt(id, code, receipt, amount, phone) ==
    StkCallback([CheckoutRequestID |-> id, ResultCode |-> code,
                 ResultDesc |-> "The service request is processed successfully.",
                 CallbackMetadata |->
                    [Item |-> <<Item("Amount", amount),
                                Item("MpesaReceiptNumber", receipt),
                                Item("TransactionDate", 20231201),
                                Item("PhoneNumber", phone)>>]])

Outcome(id, code, desc) ==
    StkCallback([CheckoutRequestID |-> id, ResultCode |-> code, ResultDesc |-> desc])

\* POST /callback: the JSON body
CallbackRequests == <<
    [kind |-> "callback", json |-> << >>],
    [kind |-> "callback", json |-> [invalid |-> "format"]],
    StkCallback([ResultCode |-> 0, ResultDesc |-> "no identifier"]),
    Receipt("ws_CO_1", 0, "QK1", KES(100), Phone1),
    Receipt("ws_CO_2", 0, "QK1", KES(250), Phone2),
    Outcome("ws_CO_1", 0, "The service request is processed successfully."),
    Outcome("ws_CO_1", 1, "The balance is insufficient for the transaction."),
    Outcome("ws_CO_2", 1032, "Request cancelled by user"),
    Outcome("ws_CO_9", 0, "The service request is processed successfully.")
>>

(***************************************************************************)
(* The collection and its unique indexes (create_index, unique=True).      *)
(* A unique index that is not sparse indexes a document lacking the field  *)
(* under null: the key of a missing field is None.                         *)
(***************************************************************************)
\* the collection without the unique index of line 36
UniqueIndexes_checkout_only == {"checkout_request_id"}

\* the collection without the unique index of line 37
UniqueIndexes_receipt_only == {"transaction_id"}

UniqueIndexes == {"transaction_id", "checkout_request_id"}

IndexKey(doc, field) == Get(doc, field, None)

\* whether doc, put at position at (0: appended), collides on a unique index
DuplicateKey(docs, doc, at) ==
    \E field \in UniqueIndexes : \E i \in 1..Len(docs) :
        i # at /\ IndexKey(docs[i], field) = IndexKey(doc, field)

\* positions of the documents matching {"checkout_request_id": id}
Matching(docs, id) ==
    {i \in 1..Len(docs) : IndexKey(docs[i], "checkout_request_id") = id}

First(S) == CHOOSE i \in S : \A j \in S : i <= j

(***************************************************************************)
(* Handlers.                                                               *)
(***************************************************************************)
NoRequest == [kind |-> "none"]
NoResponse == [n |-> 0, to |-> NoRequest, code |-> 0]

Handler(pc, request, locals) == [pc |-> pc, req |-> request, local |-> locals]

Running == BagToSet(handlers)

\* datetime.utcnow(): time does not run backwards
Now == {t \in clock..(clock + 1) : t <= MaxClock}

\* a request reaches a free handler
Arrives ==
    /\ arrived < MaxRequests
    /\ BagCardinality(handlers) < MaxInFlight
    /\ arrived' = arrived + 1

\* the response to request: status code and JSON body
Response(request, code, body) ==
    [n |-> resp.n + 1, to |-> request, code |-> code, body |-> body]

\* the request is answered before its handler meets the outside
Reject(request, code, body) ==
    /\ resp' = Response(request, code, body)
    /\ UNCHANGED handlers

\* the request is handled from label on, with these local variables
Start(request, label, locals) ==
    /\ handlers' = handlers (+) SetToBag({Handler(label, request, locals)})
    /\ UNCHANGED resp

\* handler h goes on to label
Goto(h, label, locals) ==
    /\ handlers' = (handlers (-) SetToBag({h}))
                       (+) SetToBag({Handler(label, h.req, locals)})
    /\ UNCHANGED resp

\* handler h returns
Finish(h, code, body) ==
    /\ handlers' = handlers (-) SetToBag({h})
    /\ resp' = Response(h.req, code, body)

\* require_api_token: check_password_hash(config.Config.API_TOKEN, token)
Authorized(token) == token = API_TOKEN

\* initiate_stk_push up to the token request: authentication and validation
InitiateReceive ==
    /\ Arrives
    /\ \E i \in DOMAIN InitiateRequests :
        LET request == InitiateRequests[i]
            data == request.json
            phone == validate_phone_number(Get(data, "phone", NoPhone))
            amount == validate_amount(Get(data, "amount", [t |-> "none"]))
        IN  IF request.auth = None
            THEN Reject(request, 401, [error |-> "Missing Authorization header"])
            ELSE IF ~Authorized(request.auth)
            THEN Reject(request, 401, [error |-> "Invalid API token"])
            ELSE IF Falsy(data)
            THEN Reject(request, 400, [error |-> "Request body is required"])
            ELSE IF ~phone.ok
            THEN Reject(request, 400, [error |-> phone.error])
            ELSE IF ~amount.ok
            THEN Reject(request, 400, [error |-> amount.error])
            ELSE Start(request, "token",
                       [phone_result |-> phone.phone,
                        amount_result |-> amount.amount,
                        account_reference |-> Get(data, "account_reference", "Payment"),
                        transaction_desc |->
                            Get(data, "transaction_desc", "Payment for goods/services")])
    /\ UNCHANGED <<store, clock>>

\* the except clause of initiate_stk_push
InitiationFailed(h, details) ==
    Finish(h, 500, [error |-> "Payment initiation failed", details |-> details])

\* requests.get(url, headers=headers, timeout=...): the token endpoint
\* replies, or the call raises
TokenReply(h) ==
    /\ h.pc = "token"
    /\ \E i \in DOMAIN TokenReplies :
        Goto(h, "token_reply", Update(h.local, [token_response |-> TokenReplies[i]]))
    /\ UNCHANGED <<store, clock, arrived>>

\* get_access_token with the failure swallowed: the handler goes on without
\* a token where the code re-raises
get_access_token_swallowing(response) ==
    IF Has(response, "raises")
    THEN [ok |-> TRUE, access_token |-> None]
    ELSE IF response.status_code >= 400
    THEN [ok |-> TRUE, access_token |-> None]
    ELSE [ok |-> TRUE, access_token |-> Get(response.json, "access_token", None)]

\* get_access_token on the reply: the token, or the exception it raises
get_access_token(response) ==
    IF Has(response, "raises")
    THEN [ok |-> FALSE, error |-> "Failed to get access token"]
    ELSE IF response.status_code >= 400
    THEN [ok |-> FALSE, error |-> "Failed to get access token"]
    ELSE IF ~Has(response.json, "access_token")
    THEN [ok |-> FALSE, error |-> "Failed to get access token"]
    ELSE [ok |-> TRUE, access_token |-> response.json.access_token]

\* the payload of the push-payment request
Payload(locals) ==
    [Amount |-> ToInt(locals.amount_result),
     PartyA |-> locals.phone_result,
     PhoneNumber |-> locals.phone_result,
     AccountReference |-> locals.account_reference,
     TransactionDesc |-> locals.transaction_desc]

\* initiate_stk_push asking for a token again when get_access_token failed
GetAccessToken_retrying(h) ==
    /\ h.pc = "token_reply"
    /\ LET token == get_access_token(h.local.token_response) IN
       IF ~token.ok
       THEN Goto(h, "token", h.local)
       ELSE IF h.local.amount_result = NaN
       THEN InitiationFailed(h, "cannot convert float NaN to integer")
       ELSE Goto(h, "push",
                 Update(h.local, [access_token |-> token.access_token,
                                  payload |-> Payload(h.local)]))
    /\ UNCHANGED <<store, clock, arrived>>

\* the token is read from the reply and the push-payment request is sent
GetAccessToken(h) ==
    /\ h.pc = "token_reply"
    /\ LET token == get_access_token(h.local.token_response) IN
       IF ~token.ok
       THEN InitiationFailed(h, token.error)
       ELSE IF h.local.amount_result = NaN
       THEN InitiationFailed(h, "cannot convert float NaN to integer")
       ELSE Goto(h, "push",
                 Update(h.local, [access_token |-> token.access_token,
                                  payload |-> Payload(h.local)]))
    /\ UNCHANGED <<store, clock, arrived>>

\* requests.post(..., json=payload, ...): the push-payment endpoint replies,
\* or the call raises
PushReply(h) ==
    /\ h.pc = "push"
    /\ \E i \in DOMAIN PushReplies :
        Goto(h, "push_reply", Update(h.local, [response |-> PushReplies[i]]))
    /\ UNCHANGED <<store, clock, arrived>>

\* the reply read without the check for errorCode
ReadReply_unchecked(response) ==
    IF Has(response, "raises")
    THEN [kind |-> "error", details |-> response.raises]
    ELSE IF response.status_code >= 400
    THEN [kind |-> "error", details |-> "HTTPError"]
    ELSE [kind |-> "accepted", response_data |-> response.json]

\* how initiate_stk_push reads the reply: an exception ("error"), the
\* provider's refusal ("rejected") or its acceptance ("accepted")
ReadReply(response) ==
    IF Has(response, "raises")
    THEN [kind |-> "error", details |-> response.raises]
    ELSE IF response.status_code >= 400
    THEN [kind |-> "error", details |-> "HTTPError"]
    ELSE IF Has(response.json, "errorCode")
    THEN [kind |-> "rejected",
          details |-> Get(response.json, "errorMessage", "Unknown error")]
    ELSE [kind |-> "accepted", response_data |-> response.json]

\* the document keyed by the merchant request's identifier instead
Transaction_by_merchant_id(locals, response_data, now) ==
    [phone |-> locals.phone_result,
     amount |-> locals.amount_result,
     status |-> "PENDING",
     account_reference |-> locals.account_reference,
     transaction_desc |-> locals.transaction_desc,
     created_at |-> now,
     checkout_request_id |-> Get(response_data, "MerchantRequestID", None),
     merchant_request_id |-> Get(response_data, "MerchantRequestID", None),
     customer_message |-> Get(response_data, "CustomerMessage", ""),
     request_id |-> Get(response_data, "RequestID", "")]

\* the document initiate_stk_push builds from the provider's reply
Transaction(locals, response_data, now) ==
    [phone |-> locals.phone_result,
     amount |-> locals.amount_result,
     status |-> "PENDING",
     account_reference |-> locals.account_reference,
     transaction_desc |-> locals.transaction_desc,
     created_at |-> now,
     checkout_request_id |-> Get(response_data, "CheckoutRequestID", None),
     merchant_request_id |-> Get(response_data, "MerchantRequestID", None),
     customer_message |-> Get(response_data, "CustomerMessage", ""),
     request_id |-> Get(response_data, "RequestID", "")]

\* the reply is read and, when the provider accepted, the transaction built
StkPush(h) ==
    /\ h.pc = "push_reply"
    /\ \E now \in Now :
        LET reply == ReadReply(h.local.response) IN
        IF reply.kind = "error"
        THEN InitiationFailed(h, reply.details) /\ UNCHANGED clock
        ELSE IF reply.kind = "rejected"
        THEN /\ Finish(h, 400, [error |-> "Payment initiation failed",
                                details |-> reply.details])
             /\ UNCHANGED clock
        ELSE /\ Goto(h, "insert",
                     Update(h.local,
                         [response_data |-> reply.response_data,
                          transaction |->
                              Transaction(h.local, reply.response_data, now)]))
             /\ clock' = now
    /\ UNCHANGED <<store, arrived>>

\* insert_one(transaction) on docs: the documents afterwards, and whether it
\* raised DuplicateKeyError
insert_one(docs, transaction) ==
    IF DuplicateKey(docs, transaction, 0)
    THEN [docs |-> docs, raises |-> TRUE]
    ELSE [docs |-> Append(docs, transaction), raises |-> FALSE]

\* transactions_collection.insert_one(transaction) and the response
InsertOne(h) ==
    /\ h.pc = "insert"
    /\ LET result == insert_one(store, h.local.transaction)
           response_data == h.local.response_data
       IN  /\ store' = result.docs
           /\ IF result.raises
              THEN Finish(h, 409, [error |-> "Duplicate transaction"])
              ELSE Finish(h, 200,
                       [message |-> "Payment initiated successfully",
                        checkout_request_id |->
                            Get(response_data, "CheckoutRequestID", None),
                        merchant_request_id |->
                            Get(response_data, "MerchantRequestID", None),
                        customer_message |->
                            Get(response_data, "CustomerMessage", None),
                        status |-> "PENDING"])
    /\ UNCHANGED <<clock, arrived>>

(***************************************************************************)
(* handle_callback                                                         *)
(***************************************************************************)
\* metadata_dict: the Name/Value items flattened, a later item overwriting
RECURSIVE MetadataDict(_)
MetadataDict(items) ==
    IF Len(items) = 0 THEN << >>
    ELSE LET item == items[Len(items)] IN
         Update(MetadataDict(SubSeq(items, 1, Len(items) - 1)),
                [k \in {item.Name} |-> item.Value])

\* update_data reading the status off result_code <= 1
UpdateData_up_to_1(stk_callback, now) ==
    LET result_code == Get(stk_callback, "ResultCode", NoneNum)
        base == [status |-> IF result_code <= 1 THEN "SUCCESS" ELSE "FAILED",
                 result_code |-> result_code,
                 result_desc |-> Get(stk_callback, "ResultDesc", None),
                 updated_at |-> now]
        metadata_dict ==
            MetadataDict(Get(Get(stk_callback, "CallbackMetadata", << >>), "Item", << >>))
    IN  IF result_code = 0
        THEN Update(base,
                 [amount |-> Get(metadata_dict, "Amount", NoneNum),
                  phone |-> Get(metadata_dict, "PhoneNumber", NoPhone),
                  transaction_id |-> Get(metadata_dict, "MpesaReceiptNumber", None),
                  transaction_date |-> Get(metadata_dict, "TransactionDate", NoneNum),
                  balance |-> Get(metadata_dict, "Balance", NoneNum)])
        ELSE base

\* update_data leaving the request-time amount and phone in place
UpdateData_keeping_request(stk_callback, now) ==
    LET result_code == Get(stk_callback, "ResultCode", NoneNum)
        base == [status |-> IF result_code = 0 THEN "SUCCESS" ELSE "FAILED",
                 result_code |-> result_code,
                 result_desc |-> Get(stk_callback, "ResultDesc", None),
                 updated_at |-> now]
        metadata_dict ==
            MetadataDict(Get(Get(stk_callback, "CallbackMetadata", << >>), "Item", << >>))
    IN  IF result_code = 0
        THEN Update(base,
                 [transaction_id |-> Get(metadata_dict, "MpesaReceiptNumber", None),
                  transaction_date |-> Get(metadata_dict, "TransactionDate", NoneNum),
                  balance |-> Get(metadata_dict, "Balance", NoneNum)])
        ELSE base

\* update_data extracting the metadata whatever the ResultCode
UpdateData_always_metadata(stk_callback, now) ==
    LET result_code == Get(stk_callback, "ResultCode", NoneNum)
        base == [status |-> IF result_code = 0 THEN "SUCCESS" ELSE "FAILED",
                 result_code |-> result_code,
                 result_desc |-> Get(stk_callback, "ResultDesc", None),
                 updated_at |-> now]
        metadata_dict ==
            MetadataDict(Get(Get(stk_callback, "CallbackMetadata", << >>), "Item", << >>))
    IN  Update(base,
            [amount |-> Get(metadata_dict, "Amount", NoneNum),
             phone |-> Get(metadata_dict, "PhoneNumber", NoPhone),
             transaction_id |-> Get(metadata_dict, "MpesaReceiptNumber", None),
             transaction_date |-> Get(metadata_dict, "TransactionDate", NoneNum),
             balance |-> Get(metadata_dict, "Balance", NoneNum)])

\* update_data stamping created_at as well
UpdateData_stamping_created_at(stk_callback, now) ==
    LET result_code == Get(stk_callback, "ResultCode", NoneNum)
        base == [status |-> IF result_code = 0 THEN "SUCCESS" ELSE "FAILED",
                 result_code |-> result_code,
                 result_desc |-> Get(stk_callback, "ResultDesc", None),
                 created_at |-> now,
                 updated_at |-> now]
        metadata_dict ==
            MetadataDict(Get(Get(stk_callback, "CallbackMetadata", << >>), "Item", << >>))
    IN  IF result_code = 0
        THEN Update(base,
                 [amount |-> Get(metadata_dict, "Amount", NoneNum),
                  phone |-> Get(metadata_dict, "PhoneNumber", NoPhone),
                  transaction_id |-> Get(metadata_dict, "MpesaReceiptNumber", None),
                  transaction_date |-> Get(metadata_dict, "TransactionDate", NoneNum),
                  balance |-> Get(metadata_dict, "Balance", NoneNum)])
        ELSE base

\* update_data: what the callback sets on the transaction
UpdateData(stk_callback, now) ==
    LET result_code == Get(stk_callback, "ResultCode", NoneNum)
        base == [status |-> IF result_code = 0 THEN "SUCCESS" ELSE "FAILED",
                 result_code |-> result_code,
                 result_desc |-> Get(stk_callback, "ResultDesc", None),
                 updated_at |-> now]
        metadata_dict ==
            MetadataDict(Get(Get(stk_callback, "CallbackMetadata", << >>), "Item", << >>))
    IN  IF result_code = 0
        THEN Update(base,
                 [amount |-> Get(metadata_dict, "Amount", NoneNum),
                  phone |-> Get(metadata_dict, "PhoneNumber", NoPhone),
                  transaction_id |-> Get(metadata_dict, "MpesaReceiptNumber", None),
                  transaction_date |-> Get(metadata_dict, "TransactionDate", NoneNum),
                  balance |-> Get(metadata_dict, "Balance", NoneNum)])
        ELSE base

\* handle_callback up to the update: parsing the body
CallbackReceive ==
    /\ Arrives
    /\ \E i \in DOMAIN CallbackRequests : \E now \in Now :
        LET request == CallbackRequests[i]
            callback_data == request.json
            stk_callback == Get(Get(callback_data, "Body", << >>), "stkCallback", << >>)
            checkout_request_id == Get(stk_callback, "CheckoutRequestID", None)
        IN  IF Falsy(callback_data)
            THEN /\ Reject(request, 400, [error |-> "Callback data is required"])
                 /\ UNCHANGED clock
            ELSE IF Falsy(stk_callback)
            THEN /\ Reject(request, 400, [error |-> "Invalid callback format"])
                 /\ UNCHANGED clock
            ELSE IF checkout_request_id = None
            THEN /\ Reject(request, 400, [error |-> "CheckoutRequestID is required"])
                 /\ UNCHANGED clock
            ELSE /\ Start(request, "update",
                          [checkout_request_id |-> checkout_request_id,
                           update_data |-> UpdateData(stk_callback, now)])
                 /\ clock' = now
    /\ UNCHANGED store

\* update_one whose write is not rolled back when the unique index refuses it
update_one_not_rolled_back(docs, id, update_data) ==
    LET matched == Matching(docs, id) IN
    IF matched = {}
    THEN [docs |-> docs, matched_count |-> 0, raises |-> FALSE]
    ELSE LET at == First(matched)
             updated == Update(docs[at], update_data)
         IN  [docs |-> [docs EXCEPT ![at] = updated],
              matched_count |-> 1,
              raises |-> DuplicateKey(docs, updated, at)]

\* update_one with upsert=True: a filter that matches nothing inserts
update_one_upsert(docs, id, update_data) ==
    LET matched == Matching(docs, id) IN
    IF matched = {}
    THEN [docs |-> Append(docs, Update([checkout_request_id |-> id], update_data)),
          matched_count |-> 0, raises |-> FALSE]
    ELSE LET at == First(matched)
             updated == Update(docs[at], update_data)
         IN  IF DuplicateKey(docs, updated, at)
             THEN [docs |-> docs, matched_count |-> 0, raises |-> TRUE]
             ELSE [docs |-> [docs EXCEPT ![at] = updated],
                   matched_count |-> 1, raises |-> FALSE]

\* update_many without the filter: the update set on every document once the
\* filter matches one
update_one_all(docs, id, update_data) ==
    LET matched == Matching(docs, id) IN
    IF matched = {}
    THEN [docs |-> docs, matched_count |-> 0, raises |-> FALSE]
    ELSE [docs |-> [i \in 1..Len(docs) |-> Update(docs[i], update_data)],
          matched_count |-> 1, raises |-> FALSE]

\* update_one({"checkout_request_id": id}, {"$set": update_data}) on docs:
\* the documents afterwards, the count matched, and whether it raised
\* DuplicateKeyError
update_one(docs, id, update_data) ==
    LET matched == Matching(docs, id) IN
    IF matched = {}
    THEN [docs |-> docs, matched_count |-> 0, raises |-> FALSE]
    ELSE LET at == First(matched)
             updated == Update(docs[at], update_data)
         IN  IF DuplicateKey(docs, updated, at)
             THEN [docs |-> docs, matched_count |-> 0, raises |-> TRUE]
             ELSE [docs |-> [docs EXCEPT ![at] = updated],
                   matched_count |-> 1, raises |-> FALSE]

\* the update of the stored transaction and the response
UpdateOne(h) ==
    /\ h.pc = "update"
    /\ LET result == update_one(store, h.local.checkout_request_id,
                                h.local.update_data)
       IN  /\ store' = result.docs
           /\ IF result.raises
              THEN Finish(h, 500, [error |-> "Callback processing failed",
                                   details |-> "DuplicateKeyError"])
              ELSE IF result.matched_count = 0
              THEN Finish(h, 404, [error |-> "Transaction not found"])
              ELSE Finish(h, 200,
                       [message |-> "Callback processed successfully",
                        status |-> h.local.update_data.status])
    /\ UNCHANGED <<clock, arrived>>

(***************************************************************************)
(* get_transactions                                                        *)
(***************************************************************************)
\* request.args.get('limit', 50) and min(..., 100)
DEFAULT_LIMIT == 50
MAX_LIMIT == 100

\* int(s) on a query-string value: an optional sign and digits, ValueError
\* (ok = FALSE) otherwise
ParseInt(s) ==
    LET negative == s # << >> /\ s[1] = "-"
        digits == IF negative THEN Tail(s) ELSE s
    IN  IF digits # << >> /\ \A k \in 1..Len(digits) : IsDigit(digits[k])
        THEN [ok |-> TRUE,
              v |-> IF negative THEN 0 - DigitsToInt(digits) ELSE DigitsToInt(digits)]
        ELSE [ok |-> FALSE, v |-> 0]

LowerCase == <<"a", "b", "c", "d", "e", "f", "g", "h", "i", "j", "k", "l", "m",
               "n", "o", "p", "q", "r", "s", "t", "u", "v", "w", "x", "y", "z">>
UpperCase == <<"A", "B", "C", "D", "E", "F", "G", "H", "I", "J", "K", "L", "M",
               "N", "O", "P", "Q", "R", "S", "T", "U", "V", "W", "X", "Y", "Z">>

\* str.upper(), on a string given by its characters
Upper(s) ==
    [k \in 1..Len(s) |->
        IF \E n \in 1..Len(LowerCase) : LowerCase[n] = s[k]
        THEN UpperCase[CHOOSE n \in 1..Len(LowerCase) : LowerCase[n] = s[k]]
        ELSE s[k]]

\* the string of these characters
RECURSIVE Join(_)
Join(s) == IF s = << >> THEN "" ELSE Head(s) \o Join(Tail(s))

\* GET /transactions: the bearer token and the query string
QueryRequests == <<
    [kind |-> "query", auth |-> "secret",
     args |-> [phone |-> Phone1, limit |-> <<"1", "0">>, skip |-> <<"0">>]],
    [kind |-> "query", auth |-> "secret",
     args |-> [status |-> <<"p", "e", "n", "d", "i", "n", "g">>]],
    [kind |-> "query", auth |-> "secret", args |-> [limit |-> <<"0">>]],
    [kind |-> "query", auth |-> "secret", args |-> [limit |-> <<"-", "1">>]],
    [kind |-> "query", auth |-> "secret",
     args |-> [limit |-> <<"2", "0", "0">>, skip |-> <<"1">>]],
    [kind |-> "query", auth |-> "secret", args |-> [skip |-> <<"-", "1">>]],
    [kind |-> "query", auth |-> "secret", args |-> [limit |-> <<"a", "b", "c">>]],
    [kind |-> "query", auth |-> None, args |-> << >>]
>>

\* the filter built from the phone and status arguments
Query(args) ==
    LET phone == Get(args, "phone", << >>)
        status == Get(args, "status", << >>)
    IN  [f \in (IF phone # << >> THEN {"phone"} ELSE {})
                 \cup (IF status # << >> THEN {"status"} ELSE {})
            |-> IF f = "phone" THEN phone ELSE Join(Upper(status))]

\* whether a document matches a filter of equalities
MatchesQuery(doc, query) ==
    \A f \in DOMAIN query : Has(doc, f) /\ doc[f] = query[f]

\* positions of the documents matching the filter
Found(docs, query) == {i \in 1..Len(docs) : MatchesQuery(docs[i], query)}

\* the sequences in which each element of S occurs once
Arrangements(S) ==
    {order \in [1..Cardinality(S) -> S] :
        \A a \in DOMAIN order : \A b \in DOMAIN order : a # b => order[a] # order[b]}

Earliest(times) == CHOOSE t \in times : \A u \in times : t <= u

Latest(times) == CHOOSE t \in times : \A u \in times : u <= t

\* sort('created_at', -1): the orders of the positions S by created_at
\* descending, documents of equal created_at in any order.  The later half of
\* the times comes before the earlier half, each sorted in turn.
RECURSIVE Sorted(_, _)
Sorted(docs, S) ==
    LET times == {docs[i].created_at : i \in S}
        middle == (Earliest(times) + Latest(times)) \div 2
    IN  IF S = {} THEN {<< >>}
        ELSE IF Cardinality(times) = 1 THEN Arrangements(S)
        ELSE {later \o earlier :
                later \in Sorted(docs, {i \in S : docs[i].created_at > middle}),
                earlier \in Sorted(docs, {i \in S : docs[i].created_at <= middle})}

\* cursor.skip(n), n >= 0
Skip(order, n) == SubSeq(order, n + 1, Len(order))

\* cursor.limit(n): 0 is no limit, a negative n stands for -n documents in a
\* single batch
Limit(order, n) ==
    IF n = 0 THEN order
    ELSE LET m == IF n < 0 THEN 0 - n ELSE n IN
         SubSeq(order, 1, IF m < Len(order) THEN m ELSE Len(order))

\* list(find(query).sort('created_at', -1).skip(skip).limit(limit)): the pages
\* the read can return
find(docs, query, skip, limit) ==
    {LET window == Limit(Skip(order, skip), limit)
     IN  [k \in 1..Len(window) |-> docs[window[k]]] :
        order \in Sorted(docs, Found(docs, query))}

\* datetime.isoformat(): the time as a string
isoformat(t) == "T" \o ToString(t)

\* the document with its datetimes converted to ISO strings
Converted(doc) ==
    Update(doc, [f \in {"created_at", "updated_at"} \cap DOMAIN doc |->
                    isoformat(doc[f])])

\* get_transactions up to the read of the page: authentication and the
\* parsing of limit and skip
QueryReceive ==
    /\ Arrives
    /\ \E i \in DOMAIN QueryRequests :
        LET request == QueryRequests[i]
            args == request.args
            limit == IF Has(args, "limit") THEN ParseInt(args.limit)
                     ELSE [ok |-> TRUE, v |-> DEFAULT_LIMIT]
            skip == ParseInt(Get(args, "skip", <<"0">>))
            failed == [error |-> "Failed to fetch transactions"]
        IN  IF request.auth = None
            THEN Reject(request, 401, [error |-> "Missing Authorization header"])
            ELSE IF ~Authorized(request.auth)
            THEN Reject(request, 401, [error |-> "Invalid API token"])
            ELSE IF ~limit.ok \/ ~skip.ok
            THEN Reject(request, 500, Update(failed, [details |-> "ValueError"]))
            ELSE IF skip.v < 0
            THEN Reject(request, 500, Update(failed, [details |-> "skip must be >= 0"]))
            ELSE Start(request, "find",
                       [query |-> Query(args),
                        limit |-> IF limit.v < MAX_LIMIT THEN limit.v ELSE MAX_LIMIT,
                        skip |-> skip.v])
    /\ UNCHANGED <<store, clock>>

\* the page is read and its datetimes converted
Find(h) ==
    /\ h.pc = "find"
    /\ \E page \in find(store, h.local.query, h.local.skip, h.local.limit) :
        Goto(h, "count",
             Update(h.local,
                 [transactions |-> [k \in 1..Len(page) |-> Converted(page[k])]]))
    /\ UNCHANGED <<store, clock, arrived>>

\* count_documents(query) and the response
CountDocuments(h) ==
    /\ h.pc = "count"
    /\ Finish(h, 200,
           [transactions |-> h.local.transactions,
            count |-> Len(h.local.transactions),
            total |-> Cardinality(Found(store, h.local.query))])
    /\ UNCHANGED <<store, clock, arrived>>

(***************************************************************************)
(* The specification.                                                      *)
(***************************************************************************)
Init ==
    /\ store = << >>
    /\ clock = 0
    /\ arrived = 0
    /\ handlers = EmptyBag
    /\ resp = NoResponse

Next ==
    \/ InitiateReceive
    \/ CallbackReceive
    \/ \E h \in Running : TokenReply(h)
    \/ \E h \in Running : GetAccessToken(h)
    \/ \E h \in Running : PushReply(h)
    \/ \E h \in Running : StkPush(h)
    \/ \E h \in Running : InsertOne(h)
    \/ \E h \in Running : UpdateOne(h)

Spec == Init /\ [][Next]_vars

(***************************************************************************)
(* The collection outlives the process: MongoClient connects to whatever   *)
(* an earlier run stored.  SpecReconciled starts from the collection left  *)
(* by one initiation accepted as ws_CO_1 and its successful callback with  *)
(* receipt QK1, a state Spec reaches.                                      *)
(***************************************************************************)
ReconciledTransaction ==
    Update(Transaction([phone_result |-> Phone1,
                        amount_result |-> KES(250),
                        account_reference |-> "Test Payment",
                        transaction_desc |-> "Testing"],
                       PushReplies[4].json, 0),
           UpdateData(CallbackRequests[4].json.Body.stkCallback, 0))

InitReconciled ==
    /\ store = <<ReconciledTransaction>>
    /\ clock = 0
    /\ arrived = 0
    /\ handlers = EmptyBag
    /\ resp = NoResponse

SpecReconciled == InitReconciled /\ [][Next]_vars

(***************************************************************************)
(* The service with its three endpoints, on the collection SpecReconciled  *)
(* starts from.                                                            *)
(***************************************************************************)
NextService ==
    \/ InitiateReceive
    \/ CallbackReceive
    \/ QueryReceive
    \/ \E h \in Running : TokenReply(h)
    \/ \E h \in Running : GetAccessToken(h)
    \/ \E h \in Running : PushReply(h)
    \/ \E h \in Running : StkPush(h)
    \/ \E h \in Running : InsertOne(h)
    \/ \E h \in Running : UpdateOne(h)
    \/ \E h \in Running : Find(h)
    \/ \E h \in Running : CountDocuments(h)

SpecService == InitReconciled /\ [][NextService]_vars

(***************************************************************************)
(* Queries against a collection that does not change: the one left by      *)
(* ArchiveSize initiations, all but the last reconciled by a successful     *)
(* callback with a receipt of its own.                                     *)
(***************************************************************************)
\* the documents of the collection queried
ArchiveSize == 101

ArchivedTransaction(p) ==
    LET id == "ws_CO_" \o ToString(p)
        phone == IF p % 2 = 0 THEN Phone1 ELSE Phone2
        created == p - ArchiveSize
        pending ==
            Transaction([phone_result |-> phone,
                         amount_result |-> KES(100),
                         account_reference |-> "Payment",
                         transaction_desc |-> "Payment for goods/services"],
                        [CheckoutRequestID |-> id,
                         MerchantRequestID |-> "m_" \o ToString(p),
                         CustomerMessage |-> "Success. Request accepted for processing"],
                        created)
    IN  IF p = ArchiveSize THEN pending
        ELSE Update(pending,
                    UpdateData(StkCallback([CheckoutRequestID |-> id, ResultCode |-> 0,
                                   ResultDesc |-> "The service request is processed successfully.",
                                   CallbackMetadata |->
                                      [Item |-> <<Item("Amount", KES(100)),
                                                  Item("MpesaReceiptNumber", "QK" \o ToString(p)),
                                                  Item("TransactionDate", 20231201),
                                                  Item("PhoneNumber", phone)>>]]
                               ).json.Body.stkCallback,
                               created))

InitArchive ==
    /\ store = [p \in 1..ArchiveSize |-> ArchivedTransaction(p)]
    /\ clock = 0
    /\ arrived = 0
    /\ handlers = EmptyBag
    /\ resp = NoResponse

NextArchive ==
    \/ QueryReceive
    \/ \E h \in Running : Find(h)
    \/ \E h \in Running : CountDocuments(h)

SpecArchive == InitArchive /\ [][NextArchive]_vars

(***************************************************************************)
(* The validators and the preparation of a payment as functions of their   *)
(* input.  SpecValidators applies validate_phone_number, validate_amount   *)
(* and the two uses initiate_stk_push makes of an accepted amount to       *)
(* inputs drawn from bounded sets; resp holds the input and the result.    *)
(***************************************************************************)
(***************************************************************************)
\* the longest beginning of a phone input that is drawn freely
MaxHead == 4

PhoneAlphabet == {"2", "5", "4", "7", "1", "+"}

Zeros(n) == [i \in 1..n |-> "0"]

PhoneHeads == UNION {[1..n -> PhoneAlphabet] : n \in 0..MaxHead}

PhoneTails ==
    {Zeros(0), Zeros(7), Zeros(8), Zeros(9), <<"7", " ">> \o Zeros(8)}

PhoneInputs == {head \o tail : head \in PhoneHeads, tail \in PhoneTails}

\* amounts as JSON gives them: numbers (in tenths), strings, null
AmountInputs ==
    {Num(v) : v \in {0 - 100, 0, 5, 9, 10, 1005, 2500, 699999, 700000,
                     700001, 800000}}
    \cup {Str(<<"1", "0", "0">>), Str(<<"0">>), Str(<<"8", "0", "0", "0", "0">>),
          Str(<<"i", "n", "v", "a", "l", "i", "d">>), Str(<<"n", "a", "n">>),
          Str(<< >>), [t |-> "none"]}

\* a call not yet made: the function and its input
Call(kind, input) == [n |-> 0, to |-> [kind |-> kind, input |-> input], code |-> 0]

InitValidators ==
    /\ store = << >>
    /\ clock = 0
    /\ arrived = 0
    /\ handlers = EmptyBag
    /\ resp \in {Call("validate_phone_number", phone) : phone \in PhoneInputs}
           \cup {Call("validate_amount", amount) : amount \in AmountInputs}
           \cup {Call("prepare", amount) : amount \in AmountInputs}

ValidatePhone ==
    /\ resp.n = 0
    /\ resp.to.kind = "validate_phone_number"
    /\ resp' = Response(resp.to, 0, validate_phone_number(resp.to.input))
    /\ UNCHANGED <<store, clock, arrived, handlers>>

ValidateAmount ==
    /\ resp.n = 0
    /\ resp.to.kind = "validate_amount"
    /\ resp' = Response(resp.to, 0, validate_amount(resp.to.input))
    /\ UNCHANGED <<store, clock, arrived, handlers>>

\* what initiate_stk_push does with an amount validate_amount accepted: the
\* payload it submits and the transaction it stores
PreparePayment ==
    /\ resp.n = 0
    /\ resp.to.kind = "prepare"
    /\ LET result == validate_amount(resp.to.input)
           locals == [phone_result |-> Phone1,
                      amount_result |-> result.amount,
                      account_reference |-> "Payment",
                      transaction_desc |-> "Payment for goods/services"]
       IN  /\ result.ok
           /\ result.amount # NaN
           /\ resp' = Response(resp.to, 0,
                          [payload |-> Payload(locals),
                           transaction |->
                               Transaction(locals, PushReplies[4].json, 0)])
    /\ UNCHANGED <<store, clock, arrived, handlers>>

NextValidators == ValidatePhone \/ ValidateAmount \/ PreparePayment

SpecValidators == InitValidators /\ [][NextValidators]_vars

(***************************************************************************)
(* Reading a step: which handler took it, and how it left.                 *)
(***************************************************************************)
\* handler h took the step
Steps(h) == CopiesIn(h, handlers') < CopiesIn(h, handlers)

\* handler h took the step and returned its response
Returns(h) ==
    /\ handlers' = handlers (-) SetToBag({h})
    /\ resp'.n = resp.n + 1
    /\ resp'.to = h.req

\* a response was returned in the step
Responds == resp'.n = resp.n + 1

Positions == 1..Len(store)

(***************************************************************************)
(* C1: a stored transaction's status changes at most once, from PENDING to *)
(* SUCCESS or FAILED: once it is SUCCESS or FAILED no later callback for   *)
(* its checkout_request_id changes its status.                             *)
(***************************************************************************)
C1_StatusChangesAtMostOnce ==
    [][\A i \in Positions :
          store[i].status # "PENDING"
              => i <= Len(store') /\ store'[i].status = store[i].status]_vars

(***************************************************************************)
(* C2: whenever initiate returns 200 with a checkout_request_id, the call  *)
(* has inserted exactly one transaction, keyed by the identifier the       *)
(* provider issued, with status PENDING and the validated phone and        *)
(* amount; every transaction enters the store with status PENDING.         *)
(***************************************************************************)
C2_InitiateInsertsOnePending ==
    [][/\ (/\ Responds
           /\ resp'.to.kind = "initiate"
           /\ resp'.code = 200
           /\ resp'.body.checkout_request_id # None)
          => /\ Len(store') = Len(store) + 1
             /\ SubSeq(store', 1, Len(store)) = store
             /\ LET doc == store'[Len(store')]
                    data == resp'.to.json
                IN  /\ doc.checkout_request_id = resp'.body.checkout_request_id
                    /\ \E h \in Running :
                          /\ h.pc = "insert" /\ Returns(h)
                          /\ doc.checkout_request_id =
                                 h.local.response.json.CheckoutRequestID
                    /\ doc.status = "PENDING"
                    /\ doc.phone = validate_phone_number(data.phone).phone
                    /\ Len(doc.phone) = 12
                    /\ doc.amount = validate_amount(data.amount).amount
       /\ \A i \in (Len(store) + 1)..Len(store') : store'[i].status = "PENDING"
      ]_vars

C2_Witness ==
    /\ resp.to.kind = "initiate"
    /\ resp.code = 200
    /\ resp.body.checkout_request_id = "ws_CO_1"
    /\ Len(store) = 1
    /\ store[1].checkout_request_id = "ws_CO_1"
    /\ store[1].status = "PENDING"
    /\ store[1].phone = Phone1
    /\ store[1].amount = KES(250)

(***************************************************************************)
(* C3: every stored transaction has a checkout_request_id: an initiation   *)
(* whose provider reply carries no error code but omits CheckoutRequestID  *)
(* persists nothing and is reported to the caller as failed.               *)
(***************************************************************************)
C3_EveryTransactionHasId ==
    /\ \A i \in Positions : store[i].checkout_request_id # None
    /\ (resp.to.kind = "initiate" /\ resp.code = 200)
          => resp.body.checkout_request_id # None

(***************************************************************************)
(* C4: no stored transaction has status SUCCESS while its transaction_id   *)
(* is missing or null.                                                     *)
(***************************************************************************)
C4_SuccessHasReceipt ==
    \A i \in Positions :
        store[i].status = "SUCCESS"
            => Has(store[i], "transaction_id") /\ store[i].transaction_id # None

(***************************************************************************)
(* C5: handling the identical callback payload a second time changes no    *)
(* field of the stored transaction.  A callback answered 200 right after   *)
(* the same payload was answered 200 (no response, hence no write, lies    *)
(* between the two) leaves the store as it was.                            *)
(***************************************************************************)
C5_RedeliveryChangesNothing ==
    [][(/\ Responds
        /\ resp'.to.kind = "callback" /\ resp'.code = 200
        /\ resp.to.kind = "callback" /\ resp.code = 200
        /\ resp.to = resp'.to)
          => store' = store]_vars

(***************************************************************************)
(* C6: when two callbacks for the same checkout_request_id are handled     *)
(* concurrently, in either order of their updates the stored transaction   *)
(* ends as the record one of them produces when applied alone to the       *)
(* PENDING record.                                                         *)
(***************************************************************************)
C6_ConcurrentCallbacksDoNotMix ==
    \A h1 \in Running : \A h2 \in Running :
        (/\ h1.pc = "update" /\ h2.pc = "update"
         /\ h1 # h2 \/ CopiesIn(h1, handlers) >= 2
         /\ h1.local.checkout_request_id = h2.local.checkout_request_id
         /\ \A i \in Matching(store, h1.local.checkout_request_id) :
                store[i].status = "PENDING")
          => LET id == h1.local.checkout_request_id
                 alone1 == update_one(store, id, h1.local.update_data).docs
                 alone2 == update_one(store, id, h2.local.update_data).docs
                 both == update_one(alone1, id, h2.local.update_data).docs
             IN  both = alone1 \/ both = alone2

(***************************************************************************)
(* C7: if the token request or the push-payment request fails (the call    *)
(* raises, the reply has an HTTP error status, the token reply lacks the   *)
(* token), initiate answers 500 and inserts nothing; an insert is made     *)
(* only by a handler both of whose outbound calls succeeded.               *)
(***************************************************************************)
TokenRequestFailed(reply) ==
    \/ Has(reply, "raises")
    \/ reply.status_code >= 400
    \/ ~Has(reply.json, "access_token")

PushRequestFailed(reply) == Has(reply, "raises") \/ reply.status_code >= 400

C7_GatewayErrorInsertsNothing ==
    [][/\ \A h \in Running :
            (/\ Steps(h)
             /\ \/ h.pc = "token_reply" /\ TokenRequestFailed(h.local.token_response)
                \/ h.pc = "push_reply" /\ PushRequestFailed(h.local.response))
              => Returns(h) /\ resp'.code = 500 /\ store' = store
       /\ store' # store /\ Len(store') > Len(store)
              => \E h \in Running :
                    /\ h.pc = "insert" /\ Returns(h)
                    /\ ~TokenRequestFailed(h.local.token_response)
                    /\ ~PushRequestFailed(h.local.response)
      ]_vars

C7_Witness ==
    /\ resp.to.kind = "initiate"
    /\ resp.code = 500
    /\ resp.body.details = "Timeout"
    /\ Len(store) = 1

C9_ConflictOnlyOnSameId ==
    [][\A h \in Running :
          (Steps(h) /\ h.pc = "insert")
            => LET id == h.local.transaction.checkout_request_id
                   held == \E i \in Positions : store[i].checkout_request_id = id
               IN  /\ resp'.code = 409 <=> held
                   /\ ~held => /\ Len(store') = Len(store) + 1
                               /\ store'[Len(store')].checkout_request_id = id
                               /\ store'[Len(store')].status = "PENDING"]_vars

(***************************************************************************)
(* C10: a callback whose CheckoutRequestID matches no stored transaction   *)
(* is answered 404 and leaves the store unchanged; a callback never        *)
(* inserts a transaction and no step removes one.                          *)
(***************************************************************************)
C10_UnknownTransactionChangesNothing ==
    [][/\ \A h \in Running :
            (Steps(h) /\ h.pc = "update")
              => /\ Len(store') = Len(store)
                 /\ Matching(store, h.local.checkout_request_id) = {}
                       => Returns(h) /\ resp'.code = 404 /\ store' = store
       /\ Len(store') >= Len(store)
       /\ \A i \in Positions :
             store'[i].checkout_request_id = store[i].checkout_request_id
      ]_vars

C10_Witness ==
    /\ resp.to.kind = "callback"
    /\ resp.code = 404
    /\ Len(store) = 1
    /\ resp.to.json.Body.stkCallback.CheckoutRequestID # store[1].checkout_request_id

(***************************************************************************)
(* C11: whenever handle_callback answers with anything other than 200      *)
(* (400, 404, 500) the store is left exactly as it was, and whatever       *)
(* callbacks failed before, a well-formed callback for a transaction that  *)
(* is still PENDING is applied: it is answered 200 and its update_data is  *)
(* set on the transaction (unless its receipt is held by another           *)
(* transaction, the refusal of C20).                                       *)
(***************************************************************************)
ReceiptHeldByAnother(i, update_data) ==
    /\ Has(update_data, "transaction_id")
    /\ \E j \in Positions \ {i} :
          IndexKey(store[j], "transaction_id") = update_data.transaction_id

C11_FailedCallbackLosesNothing ==
    [][/\ (Responds /\ resp'.to.kind = "callback" /\ resp'.code # 200)
             => store' = store
       /\ \A h \in Running :
            (Steps(h) /\ h.pc = "update")
              => \A i \in Matching(store, h.local.checkout_request_id) :
                    (/\ store[i].status = "PENDING"
                     /\ ~ReceiptHeldByAnother(i, h.local.update_data))
                      => /\ Returns(h)
                         /\ resp'.code = 200
                         /\ store' = [store EXCEPT
                                ![i] = Update(store[i], h.local.update_data)]
      ]_vars

\* a callback was answered 400 or 404, the transaction ws_CO_2 is still
\* PENDING and a well-formed callback for it is being handled
C11_Witness ==
    /\ resp.to.kind = "callback"
    /\ resp.code \in {400, 404}
    /\ Len(store) = 2
    /\ store[2].status = "PENDING"
    /\ \E h \in Running :
          /\ h.pc = "update"
          /\ h.local.checkout_request_id = store[2].checkout_request_id

(***************************************************************************)
(* C12: an initiation request that fails authentication, or whose body,    *)
(* phone or amount is invalid (the amount is no number within              *)
(* [MIN_AMOUNT, MAX_AMOUNT]), is answered 401 or 400 in the step it        *)
(* arrives: no handler ever runs for it, so no token request, no           *)
(* push-payment request and no insert is made for it, and the store is     *)
(* unchanged.                                                              *)
(***************************************************************************)
Unauthenticated(request) == request.auth # API_TOKEN

InvalidAmount(amount) ==
    LET f == ToFloat(amount) IN
    \/ ~f.ok
    \/ f.v = NaN
    \/ f.v < KES(MIN_AMOUNT)
    \/ f.v > KES(MAX_AMOUNT)

Invalid(request) ==
    \/ Falsy(request.json)
    \/ ~validate_phone_number(Get(request.json, "phone", NoPhone)).ok
    \/ InvalidAmount(Get(request.json, "amount", [t |-> "none"]))

C12_InvalidRequestReachesNothing ==
    [][/\ \A h \in BagToSet(handlers') :
            h.req.kind = "initiate"
                => ~Unauthenticated(h.req) /\ ~Invalid(h.req)
       /\ (/\ Responds
           /\ resp'.to.kind = "initiate"
           /\ Unauthenticated(resp'.to) \/ Invalid(resp'.to))
            => /\ resp'.code = IF Unauthenticated(resp'.to) THEN 401 ELSE 400
               /\ arrived' = arrived + 1
               /\ handlers' = handlers
               /\ store' = store
      ]_vars

(***************************************************************************)
(* C13: a well-formed callback matching a stored transaction (and not      *)
(* refused for a receipt another transaction holds) is answered 200; the   *)
(* status stored and the status returned are SUCCESS if ResultCode is 0    *)
(* and FAILED for every other ResultCode, and result_code and result_desc  *)
(* are stored as the callback gave them.                                   *)
(***************************************************************************)
StkCallbackOf(request) == request.json.Body.stkCallback

StatusFor(result_code) == IF result_code = 0 THEN "SUCCESS" ELSE "FAILED"

ItemValue(stk, name, none) ==
    LET items == Get(Get(stk, "CallbackMetadata", << >>), "Item", << >>)
        named == {k \in 1..Len(items) : items[k].Name = name}
    IN  IF named = {} THEN none
        ELSE items[CHOOSE k \in named : \A l \in named : l <= k].Value

FailureFields == {"status", "result_code", "result_desc", "updated_at"}

ReceiptFields == {"transaction_id", "transaction_date", "balance"}

C15_FailureChangesFourFields ==
    [][\A h \in Running :
          (Steps(h) /\ h.pc = "update" /\ StkCallbackOf(h.req).ResultCode # 0)
            => \A i \in Matching(store, StkCallbackOf(h.req).CheckoutRequestID) :
                  store[i].status = "PENDING"
                    => /\ store'[i].status = "FAILED"
                       /\ DOMAIN store'[i] = DOMAIN store[i] \cup FailureFields
                       /\ \A k \in DOMAIN store[i] \ FailureFields :
                             store'[i][k] = store[i][k]
                       /\ DOMAIN store'[i] \cap ReceiptFields = {}
                       /\ Len(store') = Len(store)
                       /\ \A j \in Positions \ {i} : store'[j] = store[j]
      ]_vars

C15_Witness ==
    /\ resp.to.kind = "callback"
    /\ resp.code = 200
    /\ Len(store) = 1
    /\ store[1].status = "FAILED"
    /\ store[1].result_code = 1
    /\ store[1].phone = Phone1
    /\ store[1].amount = KES(250)
    /\ ~Has(store[1], "transaction_id")

(***************************************************************************)
(* C16: in every reachable state a stored transaction carries a            *)
(* transaction_id, a transaction_date or a balance only if its status is   *)
(* SUCCESS: no PENDING or FAILED transaction holds a provider receipt.     *)
(***************************************************************************)
C16_ReceiptOnlyOnSuccess ==
    \A i \in Positions :
        store[i].status # "SUCCESS"
            => /\ Get(store[i], "transaction_id", None) = None
               /\ Get(store[i], "transaction_date", NoneNum) = NoneNum
               /\ Get(store[i], "balance", NoneNum) = NoneNum

(***************************************************************************)
(* C17: in every reachable state every stored transaction has a phone of   *)
(* exactly 12 digits of the form 254[17]XXXXXXXX and an amount within      *)
(* [MIN_AMOUNT, MAX_AMOUNT].                                               *)
(***************************************************************************)
SubscriberNumber(phone) ==
    /\ Len(phone) = 12
    /\ \A k \in 1..Len(phone) : IsDigit(phone[k])
    /\ SubSeq(phone, 1, 3) = <<"2", "5", "4">>
    /\ phone[4] \in {"1", "7"}

C17_StoredPhoneAndAmountValid ==
    \A i \in Positions :
        /\ SubscriberNumber(store[i].phone)
        /\ store[i].amount >= KES(MIN_AMOUNT)
        /\ store[i].amount <= KES(MAX_AMOUNT)

(***************************************************************************)
(* C18: no step, and so no callback, changes a stored transaction's        *)
(* created_at, checkout_request_id, merchant_request_id, account_reference *)
(* or transaction_desc: they keep the values written at insertion.         *)
(***************************************************************************)
InsertionFields ==
    {"created_at", "checkout_request_id", "merchant_request_id",
     "account_reference", "transaction_desc"}

C18_InsertionFieldsKept ==
    [][\A i \in Positions :
          /\ i <= Len(store')
          /\ \A f \in InsertionFields :
                Has(store[i], f) /\ Has(store'[i], f) /\ store'[i][f] = store[i][f]
      ]_vars

\* a callback handled later than the insertion has been applied
C18_Witness ==
    /\ resp.to.kind = "callback"
    /\ resp.code = 200
    /\ Len(store) = 1
    /\ store[1].updated_at = 1
    /\ store[1].created_at = 0
    /\ store[1].checkout_request_id = "ws_CO_1"
    /\ store[1].merchant_request_id = "m_1"
    /\ store[1].transaction_desc = "Testing"

(***************************************************************************)
(* C19: in every reachable state, however initiations interleave, no two   *)
(* stored transactions have the same checkout_request_id; an initiation    *)
(* whose provider-issued identifier is already stored is answered 409 and  *)
(* leaves the store, the existing record with it, unchanged.               *)
(***************************************************************************)
C19_CheckoutRequestIdUnique ==
    [][/\ \A i \in 1..Len(store') : \A j \in 1..Len(store') :
            i # j => store'[i].checkout_request_id # store'[j].checkout_request_id
       /\ \A h \in Running :
            (/\ Steps(h) /\ h.pc = "insert"
             /\ \E i \in Positions :
                   store[i].checkout_request_id =
                       Get(h.local.response.json, "CheckoutRequestID", None))
              => Returns(h) /\ resp'.code = 409 /\ store' = store
      ]_vars

\* the identifier of the reconciled transaction was issued again: only the
\* index on checkout_request_id refuses the insert
C19_Witness ==
    /\ resp.to.kind = "initiate"
    /\ resp.code = 409
    /\ store = <<ReconciledTransaction>>

(***************************************************************************)
(* C20: in every reachable state no two stored transactions share a        *)
(* transaction_id that is set; a callback with ResultCode 0 whose receipt  *)
(* number another transaction holds is answered with an error (500) and    *)
(* leaves the store, its target with it, unchanged.                        *)
(***************************************************************************)
C20_ReceiptUnique ==
    [][/\ \A i \in 1..Len(store') : \A j \in 1..Len(store') :
            (i # j /\ Get(store'[i], "transaction_id", None) # None)
              => Get(store'[j], "transaction_id", None) # store'[i].transaction_id
       /\ \A h \in Running :
            (Steps(h) /\ h.pc = "update" /\ StkCallbackOf(h.req).ResultCode = 0)
              => LET stk == StkCallbackOf(h.req)
                     receipt == ItemValue(stk, "MpesaReceiptNumber", None)
                 IN  \A i \in Matching(store, stk.CheckoutRequestID) :
                        (/\ receipt # None
                         /\ \E j \in Positions \ {i} :
                               Get(store[j], "transaction_id", None) = receipt)
                          => Returns(h) /\ resp'.code = 500 /\ store' = store
      ]_vars

\* the callback for ws_CO_2 named the receipt QK1 of ws_CO_1 and was refused
C20_Witness ==
    /\ resp.to.kind = "callback"
    /\ resp.code = 500
    /\ StkCallbackOf(resp.to).CheckoutRequestID = "ws_CO_2"
    /\ Len(store) = 2
    /\ store[1].transaction_id = "QK1"
    /\ store[2].checkout_request_id = "ws_CO_2"
    /\ store[2].status = "PENDING"

(***************************************************************************)
(* C22: validate_phone_number accepts an input exactly when its digits,    *)
(* all other characters dropped, are 254, then 1 or 7, then 8 more digits, *)
(* and then returns exactly those 12 digits; every other input is          *)
(* rejected.                                                               *)
(***************************************************************************)
RECURSIVE DigitsOf(_)
DigitsOf(s) ==
    IF s = << >> THEN << >>
    ELSE IF Head(s) \in Digits THEN <<Head(s)>> \o DigitsOf(Tail(s))
    ELSE DigitsOf(Tail(s))

Validated(kind) == resp.n = 1 /\ resp.to.kind = kind

C22_PhoneAcceptedIffSubscriberNumber ==
    Validated("validate_phone_number") =>
        LET digits == DigitsOf(resp.to.input) IN
        /\ resp.body.ok <=> SubscriberNumber(digits)
        /\ resp.body.ok => resp.body.phone = digits

\* an input with a character that is no digit was accepted and normalised
C22_Witness ==
    /\ Validated("validate_phone_number")
    /\ resp.body.ok
    /\ resp.body.phone # resp.to.input
    /\ \E k \in 1..Len(resp.to.input) : resp.to.input[k] \notin Digits

(***************************************************************************)
(* C23: validate_amount accepts a number or numeric string exactly when it *)
(* parses to a number within [1, 70000] and returns that number unchanged; *)
(* input that is no number is rejected as "Invalid amount format", a value *)
(* below 1 as "at least 1 KES", a value above 70000 as "cannot exceed".    *)
(***************************************************************************)
\* the number a JSON amount stands for, in tenths; NoneNum when it is none
NumberOf(amount) ==
    CASE amount.t = "num" -> amount.v
      [] amount.t = "str" /\ amount.s # << >>
           /\ (\A k \in 1..Len(amount.s) : amount.s[k] \in Digits) ->
            KES(DigitsToInt(amount.s))
      [] OTHER -> NoneNum

IsNumber(amount) ==
    \/ amount.t = "num"
    \/ /\ amount.t = "str"
       /\ amount.s # << >>
       /\ \A k \in 1..Len(amount.s) : amount.s[k] \in Digits

C23_AmountAcceptedIffInRange ==
    Validated("validate_amount") =>
        LET amount == resp.to.input
            value == NumberOf(amount)
        IN  /\ resp.body.ok <=>
                  (IsNumber(amount) /\ value >= KES(MIN_AMOUNT) /\ value <= KES(MAX_AMOUNT))
            /\ resp.body.ok => resp.body.amount = value
            /\ ~IsNumber(amount) => ~resp.body.ok /\ resp.body.error = "Invalid amount format"
            /\ (IsNumber(amount) /\ value < KES(MIN_AMOUNT))
                  => ~resp.body.ok /\ resp.body.error = "Amount must be at least 1 KES"
            /\ (IsNumber(amount) /\ value > KES(MAX_AMOUNT))
                  => ~resp.body.ok /\ resp.body.error = "Amount cannot exceed 70000 KES"

(***************************************************************************)
(* C25 as stated: a rejected phone input is reported with the reason of    *)
(* the first failing rule in the order: no digits at all ("required"),     *)
(* other than 12 digits, not starting with 254, 4th digit neither 1 nor 7. *)
(***************************************************************************)
C25_ReasonLengthBeforeCountryCode ==
    (Validated("validate_phone_number") /\ ~resp.body.ok) =>
        LET digits == DigitsOf(resp.to.input) IN
        resp.body.error =
            IF digits = << >> THEN "Phone number is required"
            ELSE IF Len(digits) # 12
            THEN "Phone number must be 12 digits (254XXXXXXXXX)"
            ELSE IF SubSeq(digits, 1, 3) # <<"2", "5", "4">>
            THEN "Phone number must start with 254"
            ELSE "Phone number must be a valid Safaricom number"

(***************************************************************************)
(* C25 amended: a rejected phone input is reported with the reason of the  *)
(* first failing rule in the order: the input itself is empty ("required"),*)
(* its digits do not start with 254, they are other than 12, the 4th is    *)
(* neither 1 nor 7.  Digits of a length other than 12 are reported as a    *)
(* length mismatch only when they start with 254.                          *)
(***************************************************************************)
Begins254(digits) == Len(digits) >= 3 /\ SubSeq(digits, 1, 3) = <<"2", "5", "4">>

C25_ReasonCountryCodeBeforeLength ==
    (Validated("validate_phone_number") /\ ~resp.body.ok) =>
        LET digits == DigitsOf(resp.to.input) IN
        resp.body.error =
            IF resp.to.input = << >> THEN "Phone number is required"
            ELSE IF ~Begins254(digits)
            THEN "Phone number must start with 254"
            ELSE IF Len(digits) # 12
            THEN "Phone number must be 12 digits (254XXXXXXXXX)"
            ELSE "Phone number must be a valid Safaricom number"

\* digits of a wrong length that do not start with 254 were rejected for the
\* country code
C25_Witness ==
    /\ Validated("validate_phone_number")
    /\ ~resp.body.ok
    /\ Len(DigitsOf(resp.to.input)) \notin {0, 12}
    /\ ~Begins254(DigitsOf(resp.to.input))
    /\ resp.body.error = "Phone number must start with 254"

(***************************************************************************)
(* C30: for every accepted amount the integer Amount of the push-payment   *)
(* payload equals the amount of the PENDING transaction built for the      *)
(* store, and lies within [1, 70000].                                      *)
(***************************************************************************)
C30_PayloadAmountIsPersistedAmount ==
    Validated("prepare") =>
        /\ KES(resp.body.payload.Amount) = resp.body.transaction.amount
        /\ resp.body.payload.Amount >= MIN_AMOUNT
        /\ resp.body.payload.Amount <= MAX_AMOUNT

(***************************************************************************)
(* C24: an initiation that passed validation makes one token request of    *)
(* its own, then at most one push-payment request, then at most one        *)
(* insert, in this order: its handler starts before the token request with *)
(* no token, each of its steps takes it to the next position or returns    *)
(* its response, the token it submits is the one of its own token reply,   *)
(* only its insert changes the store, and after a failed token or          *)
(* push-payment request it returns 500 without asking again.               *)
(***************************************************************************)
Rank(pc) ==
    CASE pc = "token" -> 1 [] pc = "token_reply" -> 2 [] pc = "push" -> 3
      [] pc = "push_reply" -> 4 [] pc = "insert" -> 5

\* the step takes handler h to g
Becomes(h, g) == handlers' = (handlers (-) SetToBag({h})) (+) SetToBag({g})

C24_OneTokenOnePushOneInsert ==
    [][/\ \A h \in Running :
            (Steps(h) /\ h.req.kind = "initiate")
              => /\ \/ Returns(h)
                    \/ \E g \in BagToSet(handlers') :
                          /\ Becomes(h, g)
                          /\ g.req = h.req
                          /\ Rank(g.pc) = Rank(h.pc) + 1
                 /\ h.pc \in {"token", "push"} => ~Returns(h)
                 /\ (h.pc = "token_reply" /\ ~Returns(h))
                       => \E g \in BagToSet(handlers') :
                             /\ Becomes(h, g)
                             /\ g.local.access_token =
                                    h.local.token_response.json.access_token
                 /\ (h.pc = "token_reply" /\ TokenRequestFailed(h.local.token_response))
                       => Returns(h) /\ resp'.code = 500
                 /\ (h.pc = "push_reply" /\ PushRequestFailed(h.local.response))
                       => Returns(h) /\ resp'.code = 500
                 /\ store' # store => h.pc = "insert"
       /\ (\A h \in Running : ~Steps(h))
            => \A g \in BagToSet(handlers') :
                  (g.req.kind = "initiate" /\ CopiesIn(g, handlers') > CopiesIn(g, handlers))
                    => /\ g.pc = "token"
                       /\ ~Has(g.local, "token_response")
                       /\ ~Has(g.local, "access_token")
      ]_vars

\* one initiation went through its three requests and was answered while
\* another, with a token of its own, waits for the provider's reply
C24_Witness ==
    /\ resp.to.kind = "initiate"
    /\ resp.code = 200
    /\ Len(store) = 1
    /\ \E g \in Running : g.pc = "push" /\ Has(g.local, "access_token")

(***************************************************************************)
(* C27: a callback handled after the provider accepted the push-payment    *)
(* request and before the initiation's insert of that identifier is        *)
(* answered 404 and changes nothing, the initiation still inserts its      *)
(* transaction as PENDING, and a PENDING transaction is changed by nothing *)
(* but the update of a callback carrying its identifier.                   *)
(***************************************************************************)
\* the provider accepted g's push-payment request under id and g has not
\* inserted yet
AwaitsInsert(g, id) ==
    /\ g.req.kind = "initiate"
    /\ \/ /\ g.pc = "push_reply"
          /\ ReadReply(g.local.response).kind = "accepted"
          /\ Get(g.local.response.json, "CheckoutRequestID", None) = id
       \/ /\ g.pc = "insert"
          /\ g.local.transaction.checkout_request_id = id

C27_EarlyCallbackLeavesPending ==
    [][/\ \A h \in Running : \A g \in Running :
            (/\ Steps(h)
             /\ h.pc = "update"
             /\ AwaitsInsert(g, h.local.checkout_request_id)
             /\ Matching(store, h.local.checkout_request_id) = {})
              => /\ Returns(h)
                 /\ resp'.code = 404
                 /\ store' = store
                 /\ g \in BagToSet(handlers')
       /\ \A g \in Running :
            (Steps(g) /\ g.pc = "insert" /\ store' # store)
              => /\ store' = Append(store, g.local.transaction)
                 /\ g.local.transaction.status = "PENDING"
       /\ \A i \in Positions :
            (store[i].status = "PENDING" /\ store'[i] # store[i])
              => \E h \in Running :
                    /\ Steps(h)
                    /\ h.req.kind = "callback"
                    /\ h.pc = "update"
                    /\ h.local.checkout_request_id = store[i].checkout_request_id
      ]_vars

\* the callback for ws_CO_1 was answered 404 while the initiation accepted as
\* ws_CO_1 has its insert still to come
C27_Witness ==
    /\ resp.to.kind = "callback"
    /\ resp.code = 404
    /\ StkCallbackOf(resp.to).CheckoutRequestID = "ws_CO_1"
    /\ Matching(store, "ws_CO_1") = {}
    /\ \E g \in Running : g.pc = "insert" /\ AwaitsInsert(g, "ws_CO_1")

(***************************************************************************)
(* C21: against a collection that does not change, GET /transactions       *)
(* returns exactly the transactions whose phone equals the phone argument  *)
(* and whose status equals the upper-cased status argument, by created_at  *)
(* descending, restricted to the places [skip, skip + limit) of that       *)
(* order, limit being the requested limit (50 by default) capped at 100;   *)
(* total is the number of all matching transactions.                       *)
(***************************************************************************)
\* a list was returned
Listed == resp.to.kind = "query" /\ resp.code = 200

\* positions of the stored transactions the arguments ask for
Wanted(args) ==
    {i \in Positions :
        /\ Get(args, "phone", << >>) # << >> => store[i].phone = args.phone
        /\ Get(args, "status", << >>) # << >>
              => store[i].status = Join(Upper(args.status))}

RequestedLimit(args) ==
    LET limit == IF Has(args, "limit") THEN ParseInt(args.limit).v ELSE DEFAULT_LIMIT
    IN  IF limit > MAX_LIMIT THEN MAX_LIMIT ELSE limit

RequestedSkip(args) == IF Has(args, "skip") THEN ParseInt(args.skip).v ELSE 0

\* how many transactions of M are newer than, as old as, the one at i
NewerThan(M, i) == Cardinality({j \in M : store[j].created_at > store[i].created_at})
AsOldAs(M, i) == Cardinality({j \in M : store[j].created_at = store[i].created_at})

C21_ListReturnsWindow ==
    Listed =>
        LET args == resp.to.args
            page == resp.body.transactions
            M == Wanted(args)
            first == RequestedSkip(args)
            last == IF first + RequestedLimit(args) < Cardinality(M)
                    THEN first + RequestedLimit(args) ELSE Cardinality(M)
        IN  /\ resp.body.total = Cardinality(M)
            /\ Len(page) = IF last > first THEN last - first ELSE 0
            /\ \A k \in 1..Len(page) :
                  \E i \in M :
                     /\ page[k] = Converted(store[i])
                     /\ NewerThan(M, i) <= first + k - 1
                     /\ first + k - 1 < NewerThan(M, i) + AsOldAs(M, i)
            /\ \A k \in 1..Len(page) : \A m \in 1..Len(page) :
                  k # m => page[k] # page[m]

(***************************************************************************)
(* C26: whatever integer limit and skip the caller supplies (0, negative,  *)
(* above 100), the returned page holds at most 100 transactions and count  *)
(* is the length of the page.                                              *)
(***************************************************************************)
C26_PageWithinCap ==
    Listed =>
        /\ Len(resp.body.transactions) <= MAX_LIMIT
        /\ resp.body.count = Len(resp.body.transactions)

(***************************************************************************)
(* C28: a stored transaction is changed only by the update of a callback   *)
(* carrying its checkout_request_id: the steps of initiations and queries, *)
(* the arrival of any request and the callbacks for other identifiers      *)
(* leave every field of it as it was, and a callback answered 200 sets its *)
(* update on exactly one stored transaction, the others unchanged.         *)
(***************************************************************************)
C28_OnlyOwnCallbackChanges ==
    [][/\ \A i \in Positions :
            store'[i] # store[i]
              => \E h \in Running :
                    /\ Steps(h)
                    /\ h.req.kind = "callback"
                    /\ h.pc = "update"
                    /\ h.local.checkout_request_id = store[i].checkout_request_id
       /\ \A h \in Running :
            (Steps(h) /\ h.req.kind \in {"initiate", "query"})
              => \A i \in Positions : store'[i] = store[i]
       /\ (\A h \in Running : ~Steps(h)) => store' = store
       /\ \A h \in Running :
            (Steps(h) /\ h.pc = "update" /\ Returns(h) /\ resp'.code = 200)
              => \E i \in Positions :
                    /\ store[i].checkout_request_id = h.local.checkout_request_id
                    /\ store' = [store EXCEPT ![i] = Update(store[i], h.local.update_data)]
      ]_vars

\* a callback was applied to one of two stored transactions while the other
\* is still as inserted
C28_Witness ==
    /\ resp.to.kind = "callback"
    /\ resp.code = 200
    /\ Len(store) = 2
    /\ \E i \in Positions : \E j \in Positions :
          /\ store[i].checkout_request_id = StkCallbackOf(resp.to).CheckoutRequestID
          /\ store[i].status # "PENDING"
          /\ j # i
          /\ store[j].status = "PENDING"
          /\ ~Has(store[j], "updated_at")

(***************************************************************************)
(* C29: in every list response count is at most total and every returned   *)
(* transaction satisfies the filter total was computed for, whatever       *)
(* initiations and callbacks are handled between the read of the page and  *)
(* the count.                                                              *)
(***************************************************************************)
C29_CountWithinTotal ==
    Listed =>
        /\ resp.body.count <= resp.body.total
        /\ \A k \in 1..Len(resp.body.transactions) :
              MatchesQuery(resp.body.transactions[k], Query(resp.to.args))

====
